---- MODULE Spec2Model ----
(***************************************************************************)
(* shanbor: the axum handler `generate` and the shared LRU fetch cache     *)
(* behind `retrieve_image` (src/src/main.rs).                              *)
(*                                                                         *)
(* Each request slot runs one call of `generate` at a time.  A call is     *)
(* cut at its await points: cache.lock().await, reqwest::get(url).await    *)
(* and resp.bytes().await.  The code between two await points touches the  *)
(* cache only while it owns the MutexGuard, so it is one step.  A local    *)
(* that the rest of the call no longer reads (url and the fetch count      *)
(* after retrieve_image, the Response after bytes(), data after the        *)
(* engine) goes back to its empty value.                                   *)
(*                                                                         *)
(* Spec and AnsweredSpec run the request slots against the cache; there    *)
(* the engine is one step.  PipeSpec follows a single request from the     *)
(* ImageSpec that print_test_url encodes, through the decode in generate,  *)
(* to the engine's decode, apply and generate; the cache stands still.     *)
(***************************************************************************)
EXTENDS Integers, Sequences, FiniteSets

(* ---- bounds ---------------------------------------------------------- *)
\* number of request slots served concurrently
NumReqs == 2
\* range of the hasher: u64 (2^64 values) scaled down to KeySpace values
KeySpace == 3
\* capacity handed to LruCache::new (1024 in main), scaled down
MaxEntries == 2
\* longest step list of an ImageSpec under test
MaxSteps == 2
\* largest width, height or offset of the images under test
MaxDim == 2

Reqs == 1..NumReqs
\* one more URL than there are keys: the URL strings outnumber the u64 keys
Urls == 0..KeySpace
KeyRange == 0..(KeySpace - 1)

NoReq == 0
NoBody == [src |-> -1, kind |-> "none"]
BodyKinds == {"image", "junk", "errpage"}
NoHit == [last |-> -1, before |-> -1]
NoCall == [url |-> -1, kind |-> "none", body |-> NoBody, fetches |-> 0, wasEmpty |-> FALSE]

VARIABLES
    pc,          \* position of each request's task
    specOk,      \* Result of spec.as_str().try_into(): TRUE for Ok(spec)
    url,         \* percent-decoded url of the call
    status,      \* HTTP status of the reqwest::Response being read (0: none)
    data,        \* Bytes returned by retrieve_image
    resp,        \* answer of generate: 0 none yet, 200, 400, 500
    holder,      \* owner of the MutexGuard g (NoReq: mutex free)
    waitq,       \* tasks queued in cache.lock().await, oldest first
    cache,       \* the LruCache<u64, Bytes>, most recently used entry first
    nfetch,      \* reqwest::get invocations of the call
    stamp,       \* history: rank of each cached key by its last access
    lastCall,    \* history: the call that left the locked section last
    cacheAtLock, \* history: the cache as the current guard found it
    hitHist      \* history: the key hit by the last cache event, and the key
                 \* hit just before the last evicting insert (-1: none)

\* one request followed through the codec and the engine
VARIABLES
    pstage,      \* where that request is: "spec", "url", "rejected", "spec_ok",
                 \* "failed", "engine", "applying", "generated"
    ispec,       \* the ImageSpec whose token is printed (a list of Spec steps)
    token,       \* the `spec` path segment
    steps,       \* spec.specs of the decoded ImageSpec
    bytes,       \* the Bytes handed to the engine
    buf,         \* the engine's pixel buffer
    idx,         \* index of the step apply executes next
    napply,      \* calls of engine.apply
    applyLog,    \* history: the step, input and output of every step executed
    output       \* the encoded image returned by engine.generate

pipeVars == <<pstage, ispec, token, steps, bytes, buf, idx, napply, applyLog, output>>

serverVars == <<pc, specOk, url, status, data, resp, holder, waitq, cache, nfetch,
                stamp, lastCall, cacheAtLock, hitHist>>

vars == <<pc, specOk, url, status, data, resp, holder, waitq, cache, nfetch,
          stamp, lastCall, cacheAtLock, hitHist, pipeVars>>

(* ---- DefaultHasher --------------------------------------------------- *)
\* url.hash(&mut hasher); hasher.finish(): a fixed function from the URL
\* strings to the key range, necessarily many-to-one
Hash(u) == u % KeySpace

(* ---- lru::LruCache --------------------------------------------------- *)
Keys(c) == {c[i].key : i \in 1..Len(c)}

Contains(c, k) == k \in Keys(c)

IndexOf(c, k) == CHOOSE i \in 1..Len(c) : c[i].key = k

\* fault: a hit that hands out the most recently used entry's bytes
Peek_Front(c, k) == c[1].val

Peek(c, k) == c[IndexOf(c, k)].val

Without(c, k) == SelectSeq(c, LAMBDA e : e.key # k)

\* fault: a get that leaves the hit entry where it is (insertion order)
LruGet_NoPromote(c, k) == c

\* fault: a get that takes the entry out of the cache (LruCache::pop)
LruGet_Take(c, k) == Without(c, k)

\* LruCache::get: a hit moves the entry to the front of the recency list
LruGet(c, k) ==
    IF Contains(c, k) THEN <<c[IndexOf(c, k)]>> \o Without(c, k) ELSE c

DropLast(c) == SubSeq(c, 1, Len(c) - 1)

\* fault: a put that never evicts
LruPut_NoEvict(c, k, v) == <<[key |-> k, val |-> v]>> \o Without(c, k)

\* fault: a put that evicts the most recently used entry
LruPut_EvictFront(c, k, v) ==
    IF Contains(c, k) THEN <<[key |-> k, val |-> v]>> \o Without(c, k)
    ELSE IF Len(c) >= MaxEntries THEN <<[key |-> k, val |-> v]>> \o Tail(c)
    ELSE <<[key |-> k, val |-> v]>> \o c

\* fault: a put that stores nothing
LruPut_NoStore(c, k, v) == c

\* LruCache::put: replace and promote an existing key; otherwise insert at
\* the front, first dropping the entry at the back when at capacity
LruPut(c, k, v) ==
    IF Contains(c, k) THEN <<[key |-> k, val |-> v]>> \o Without(c, k)
    ELSE IF Len(c) >= MaxEntries THEN <<[key |-> k, val |-> v]>> \o DropLast(c)
    ELSE <<[key |-> k, val |-> v]>> \o c

(* ---- history of accesses --------------------------------------------- *)
\* ranks 1..n of the keys in `kept` by last access, k being the newest
Touch(st, k, kept) ==
    LET raw == [x \in KeyRange |->
                  IF x = k THEN MaxEntries + 2
                  ELSE IF x \in kept THEN st[x] ELSE 0]
    IN [x \in KeyRange |->
          IF raw[x] = 0 THEN 0
          ELSE Cardinality({y \in KeyRange : raw[y] > 0 /\ raw[y] <= raw[x]})]

Oldest(st, ks) == CHOOSE k \in ks : \A j \in ks : st[k] <= st[j]

(* ---- tokio::sync::Mutex ---------------------------------------------- *)
\* dropping the guard hands the permit to the oldest waiter
NextHolder == IF waitq = <<>> THEN NoReq ELSE Head(waitq)

Release ==
    /\ holder' = NextHolder
    /\ waitq' = IF waitq = <<>> THEN <<>> ELSE Tail(waitq)

InSection == {"lookup", "fetching", "reading", "hung"}
Suspended == {"wait_lock", "fetching", "reading", "hung"}

TypeOK ==
    /\ pc \in [Reqs -> {"idle", "retrieve", "wait_lock", "lookup", "fetching",
                        "reading", "hung", "engine", "done", "dropped"}]
    /\ specOk \in [Reqs -> BOOLEAN]
    /\ url \in [Reqs -> Urls \cup {-1}]
    /\ status \in [Reqs -> {0, 200, 404}]
    /\ resp \in [Reqs -> {0, 200, 400, 500}]
    /\ holder \in Reqs \cup {NoReq}
    /\ nfetch \in [Reqs -> 0..1]
    /\ waitq \in Seq(Reqs)
    /\ \A r \in Reqs : data[r] = NoBody \/ (data[r].src \in Urls /\ data[r].kind \in BodyKinds)
    /\ \A i \in 1..Len(cache) :
          /\ cache[i].key = Hash(cache[i].val.src)
          /\ cache[i].val.kind \in BodyKinds

ServerInit ==
    /\ pc = [r \in Reqs |-> "idle"]
    /\ specOk = [r \in Reqs |-> TRUE]
    /\ url = [r \in Reqs |-> -1]
    /\ status = [r \in Reqs |-> 0]
    /\ data = [r \in Reqs |-> NoBody]
    /\ resp = [r \in Reqs |-> 0]
    /\ holder = NoReq
    /\ waitq = <<>>
    /\ cache = <<>>
    /\ nfetch = [r \in Reqs |-> 0]
    /\ stamp = [k \in KeyRange |-> 0]
    /\ lastCall = NoCall
    /\ cacheAtLock = <<>>
    /\ hitHist = NoHit

NoPixels == [w |-> 0, h |-> 0, base |-> 0, over |-> 0, kernel |-> "none"]
NoOutput == [format |-> "none", quality |-> 0, pixels |-> NoPixels]

\* the followed request has an empty ImageSpec and no bytes yet
PipeIdle ==
    /\ pstage = "spec"
    /\ ispec = <<>>
    /\ token = <<>>
    /\ steps = <<>>
    /\ bytes = [kind |-> "junk", w |-> 0, h |-> 0]
    /\ buf = NoPixels
    /\ idx = 0
    /\ napply = 0
    /\ applyLog = <<>>
    /\ output = NoOutput

Init == ServerInit /\ PipeIdle

(* ---- generate -------------------------------------------------------- *)
\* a slot is free for the next request of its connection
Idle(r) == pc[r] \in {"idle", "done", "dropped"}

\* fault: the error of try_into is not returned and the handler goes on to
\* retrieve_image
GenerateBadSpec_GoesOn(r) ==
    /\ Idle(r)
    /\ specOk' = [specOk EXCEPT ![r] = FALSE]
    /\ pc' = [pc EXCEPT ![r] = "retrieve"]
    /\ url' = [url EXCEPT ![r] = 0]
    /\ status' = [status EXCEPT ![r] = 0]
    /\ data' = [data EXCEPT ![r] = NoBody]
    /\ resp' = [resp EXCEPT ![r] = 0]
    /\ nfetch' = [nfetch EXCEPT ![r] = 0]
    /\ UNCHANGED <<holder, waitq, cache, stamp, lastCall, cacheAtLock, hitHist, pipeVars>>

\* spec.as_str().try_into() fails: map_err gives BAD_REQUEST at once
GenerateBadSpec(r) ==
    /\ Idle(r)
    /\ specOk' = [specOk EXCEPT ![r] = FALSE]
    /\ pc' = [pc EXCEPT ![r] = "done"]
    /\ url' = [url EXCEPT ![r] = -1]
    /\ status' = [status EXCEPT ![r] = 0]
    /\ data' = [data EXCEPT ![r] = NoBody]
    /\ resp' = [resp EXCEPT ![r] = 400]
    /\ nfetch' = [nfetch EXCEPT ![r] = 0]
    /\ UNCHANGED <<holder, waitq, cache, stamp, lastCall, cacheAtLock, hitHist, pipeVars>>

\* the spec decodes; the url is percent-decoded and retrieve_image is called
GenerateStart(r, u) ==
    /\ Idle(r)
    /\ specOk' = [specOk EXCEPT ![r] = TRUE]
    /\ pc' = [pc EXCEPT ![r] = "retrieve"]
    /\ url' = [url EXCEPT ![r] = u]
    /\ status' = [status EXCEPT ![r] = 0]
    /\ data' = [data EXCEPT ![r] = NoBody]
    /\ resp' = [resp EXCEPT ![r] = 0]
    /\ nfetch' = [nfetch EXCEPT ![r] = 0]
    /\ UNCHANGED <<holder, waitq, cache, stamp, lastCall, cacheAtLock, hitHist, pipeVars>>

(* ---- retrieve_image: cache.lock().await ------------------------------ *)
\* fault: a lock that is granted whoever holds it
Lock_NoExclusion(r) ==
    /\ pc[r] = "retrieve"
    /\ holder' = r
    /\ cacheAtLock' = cache
    /\ pc' = [pc EXCEPT ![r] = "lookup"]
    /\ UNCHANGED <<url, status, data, resp, waitq, cache, nfetch, stamp, lastCall, hitHist, specOk, pipeVars>>

\* the mutex is free: the guard is taken on the first poll; otherwise the
\* task joins the FIFO wait queue
Lock(r) ==
    /\ pc[r] = "retrieve"
    /\ \/ /\ holder = NoReq
          /\ holder' = r
          /\ cacheAtLock' = cache
          /\ pc' = [pc EXCEPT ![r] = "lookup"]
          /\ UNCHANGED waitq
       \/ /\ holder # NoReq
          /\ waitq' = Append(waitq, r)
          /\ pc' = [pc EXCEPT ![r] = "wait_lock"]
          /\ UNCHANGED <<holder, cacheAtLock>>
    /\ UNCHANGED <<url, status, data, resp, cache, nfetch, stamp, lastCall, hitHist, specOk, pipeVars>>

\* the waiter that was handed the permit resumes with the guard
Wake(r) ==
    /\ pc[r] = "wait_lock"
    /\ holder = r
    /\ pc' = [pc EXCEPT ![r] = "lookup"]
    /\ cacheAtLock' = cache
    /\ UNCHANGED <<url, status, data, resp, holder, waitq, cache, nfetch, stamp, lastCall, hitHist, specOk, pipeVars>>

(* ---- retrieve_image: match g.get(&key) ------------------------------- *)
\* Some(v): v.to_owned() is returned and the guard dropped
LookupHit(r) ==
    LET key == Hash(url[r]) IN
    /\ pc[r] = "lookup"
    /\ holder = r
    /\ Contains(cache, key)
    /\ cache' = LruGet(cache, key)
    /\ data' = [data EXCEPT ![r] = Peek(cache, key)]
    /\ pc' = [pc EXCEPT ![r] = "engine"]
    /\ Release
    /\ stamp' = Touch(stamp, key, Keys(cache'))
    /\ lastCall' = [url |-> url[r], kind |-> "hit", body |-> Peek(cache, key),
                    fetches |-> nfetch[r], wasEmpty |-> FALSE]
    /\ cacheAtLock' = cache'
    /\ hitHist' = [last |-> key, before |-> -1]
    /\ url' = [url EXCEPT ![r] = -1]
    /\ nfetch' = [nfetch EXCEPT ![r] = 0]
    /\ UNCHANGED <<status, resp, specOk, pipeVars>>

\* fault: a miss that gives the guard back before the fetch
LookupMiss_Unlocked(r) ==
    /\ pc[r] = "lookup"
    /\ holder = r
    /\ ~Contains(cache, Hash(url[r]))
    /\ nfetch' = [nfetch EXCEPT ![r] = 1]
    /\ pc' = [pc EXCEPT ![r] = "fetching"]
    /\ Release
    /\ UNCHANGED <<url, status, data, resp, cache, stamp, lastCall, cacheAtLock, hitHist, specOk, pipeVars>>

\* None: reqwest::get(url) is issued with the guard still held
LookupMiss(r) ==
    /\ pc[r] = "lookup"
    /\ holder = r
    /\ ~Contains(cache, Hash(url[r]))
    /\ nfetch' = [nfetch EXCEPT ![r] = nfetch[r] + 1]
    /\ pc' = [pc EXCEPT ![r] = "fetching"]
    /\ UNCHANGED <<url, status, data, resp, holder, waitq, cache, stamp, lastCall, cacheAtLock, hitHist, specOk, pipeVars>>

(* ---- retrieve_image: the fetch --------------------------------------- *)
\* the `?` of lines 113 and 114: Err leaves retrieve_image, the guard is
\* dropped and generate maps the error to BAD_REQUEST
ErrorReturn(r) ==
    /\ pc' = [pc EXCEPT ![r] = "done"]
    /\ resp' = [resp EXCEPT ![r] = 400]
    /\ Release
    /\ lastCall' = [url |-> url[r], kind |-> "miss_err", body |-> NoBody,
                    fetches |-> nfetch[r], wasEmpty |-> cache = <<>>]
    /\ status' = [status EXCEPT ![r] = 0]
    /\ url' = [url EXCEPT ![r] = -1]
    /\ nfetch' = [nfetch EXCEPT ![r] = 0]
    /\ UNCHANGED <<data, stamp, hitHist, specOk, pipeVars>>

\* fault: an error return that leaves an entry for the key behind
FetchFailed_Caches(r) ==
    /\ pc[r] \in {"fetching", "reading"}
    /\ ErrorReturn(r)
    /\ cache' = LruPut(cache, Hash(url[r]), [src |-> url[r], kind |-> "junk"])
    /\ cacheAtLock' = cache'

\* fault: a failed fetch is tried again inside the same call
FetchFailed_Retries(r) ==
    /\ pc[r] \in {"fetching", "reading"}
    /\ pc' = [pc EXCEPT ![r] = "fetching"]
    /\ nfetch' = [nfetch EXCEPT ![r] = nfetch[r] + 1]
    /\ status' = [status EXCEPT ![r] = 0]
    /\ UNCHANGED <<url, data, resp, holder, waitq, cache, stamp, lastCall, cacheAtLock, hitHist, specOk, pipeVars>>

\* fault: an error return that keeps the guard
FetchFailed_KeepsLock(r) ==
    /\ pc[r] \in {"fetching", "reading"}
    /\ pc' = [pc EXCEPT ![r] = "done"]
    /\ resp' = [resp EXCEPT ![r] = 400]
    /\ lastCall' = [url |-> url[r], kind |-> "miss_err", body |-> NoBody,
                    fetches |-> nfetch[r], wasEmpty |-> cache = <<>>]
    /\ status' = [status EXCEPT ![r] = 0]
    /\ url' = [url EXCEPT ![r] = -1]
    /\ nfetch' = [nfetch EXCEPT ![r] = 0]
    /\ UNCHANGED <<data, stamp, hitHist, specOk, holder, waitq, cache, cacheAtLock, pipeVars>>

\* reqwest::get(url).await fails, or resp.bytes().await fails
FetchFailed(r) ==
    /\ pc[r] \in {"fetching", "reading"}
    /\ ErrorReturn(r)
    /\ UNCHANGED <<cache, cacheAtLock>>

\* fault: the guard is given up once the response head has arrived, before
\* the body is read
Respond_Releases(r, s) ==
    /\ pc[r] = "fetching"
    /\ pc' = [pc EXCEPT ![r] = "reading"]
    /\ status' = [status EXCEPT ![r] = s]
    /\ Release
    /\ UNCHANGED <<url, data, resp, cache, nfetch, stamp, lastCall, cacheAtLock, hitHist, specOk, pipeVars>>

\* reqwest::get(url).await is Ok(resp) for every status the server sends
Respond(r, s) ==
    /\ pc[r] = "fetching"
    /\ pc' = [pc EXCEPT ![r] = "reading"]
    /\ status' = [status EXCEPT ![r] = s]
    /\ UNCHANGED <<url, data, resp, holder, waitq, cache, nfetch, stamp, lastCall, cacheAtLock, hitHist, specOk, pipeVars>>

\* the bytes a reply of status s carries
BodiesOf(s) == IF s = 200 THEN {"image", "junk"} ELSE {"errpage"}

\* resp.bytes().await is Ok(data): g.put(key, data.clone()), Ok(data)
BodyOk(r, b) ==
    LET key == Hash(url[r])
        fetched == [src |-> url[r], kind |-> b]
    IN
    /\ pc[r] = "reading"
    /\ b \in BodiesOf(status[r])
    /\ cache' = LruPut(cache, key, fetched)
    /\ data' = [data EXCEPT ![r] = fetched]
    /\ pc' = [pc EXCEPT ![r] = "engine"]
    /\ Release
    /\ stamp' = Touch(stamp, key, Keys(cache'))
    /\ lastCall' = [url |-> url[r], kind |-> "miss_ok", body |-> fetched,
                    fetches |-> nfetch[r], wasEmpty |-> cache = <<>>]
    /\ cacheAtLock' = cache'
    /\ hitHist' = [last |-> -1,
                   before |-> IF ~Contains(cache, key) /\ Len(cache) >= MaxEntries
                              THEN hitHist.last ELSE -1]
    /\ status' = [status EXCEPT ![r] = 0]
    /\ url' = [url EXCEPT ![r] = -1]
    /\ nfetch' = [nfetch EXCEPT ![r] = 0]
    /\ UNCHANGED <<resp, specOk, pipeVars>>

\* the remote end stops answering; reqwest::get builds a client without timeout
NetSilent(r) ==
    /\ pc[r] \in {"fetching", "reading"}
    /\ pc' = [pc EXCEPT ![r] = "hung"]
    /\ status' = [status EXCEPT ![r] = 0]
    /\ UNCHANGED <<url, data, resp, holder, waitq, cache, nfetch, stamp, lastCall, cacheAtLock, hitHist, specOk, pipeVars>>

(* ---- the caller goes away -------------------------------------------- *)
\* fault: a fetch detached from its caller, which runs to completion for an
\* abandoned request and stores its bytes
Abandon_Detached(r) ==
    /\ pc[r] \in Suspended
    /\ pc' = [pc EXCEPT ![r] = "dropped"]
    /\ IF holder = r
       THEN /\ Release
            /\ lastCall' = lastCall
            /\ cache' = IF pc[r] = "wait_lock" THEN cache
                        ELSE LruPut(cache, Hash(url[r]), [src |-> url[r], kind |-> "image"])
       ELSE /\ waitq' = SelectSeq(waitq, LAMBDA w : w # r)
            /\ UNCHANGED <<holder, lastCall, cache>>
    /\ status' = [status EXCEPT ![r] = 0]
    /\ url' = [url EXCEPT ![r] = -1]
    /\ nfetch' = [nfetch EXCEPT ![r] = 0]
    /\ UNCHANGED <<data, resp, stamp, cacheAtLock, hitHist, specOk, pipeVars>>

\* the connection closes while the handler is suspended: its future is
\* dropped at the await point, with the guard or the queued lock request
Abandon(r) ==
    /\ pc[r] \in Suspended
    /\ pc' = [pc EXCEPT ![r] = "dropped"]
    /\ IF holder = r
       THEN /\ Release
            /\ lastCall' = IF pc[r] = "wait_lock" THEN lastCall
                           ELSE [url |-> url[r], kind |-> "dropped", body |-> NoBody,
                                 fetches |-> nfetch[r], wasEmpty |-> cache = <<>>]
       ELSE /\ waitq' = SelectSeq(waitq, LAMBDA w : w # r)
            /\ UNCHANGED <<holder, lastCall>>
    /\ status' = [status EXCEPT ![r] = 0]
    /\ url' = [url EXCEPT ![r] = -1]
    /\ nfetch' = [nfetch EXCEPT ![r] = 0]
    /\ UNCHANGED <<data, resp, cache, stamp, cacheAtLock, hitHist, specOk, pipeVars>>

(* ---- generate: the engine -------------------------------------------- *)
\* fault: the Err of data.try_into() is dropped and a body is sent anyway
Engine_AlwaysOk(r) ==
    /\ pc[r] = "engine"
    /\ pc' = [pc EXCEPT ![r] = "done"]
    /\ resp' = [resp EXCEPT ![r] = 200]
    /\ data' = [data EXCEPT ![r] = NoBody]
    /\ UNCHANGED <<url, status, holder, waitq, cache, nfetch, stamp, lastCall, cacheAtLock, hitHist, specOk, pipeVars>>

\* data.try_into() fails with INTERNAL_SERVER_ERROR on bytes that are no
\* image; otherwise apply, generate(Jpeg(85)) and the 200 answer
Engine(r) ==
    /\ pc[r] = "engine"
    /\ pc' = [pc EXCEPT ![r] = "done"]
    /\ resp' = [resp EXCEPT ![r] = IF data[r].kind = "image" THEN 200 ELSE 500]
    /\ data' = [data EXCEPT ![r] = NoBody]
    /\ UNCHANGED <<url, status, holder, waitq, cache, nfetch, stamp, lastCall, cacheAtLock, hitHist, specOk, pipeVars>>

Program(r) ==
    \/ Lock(r)
    \/ Wake(r)
    \/ LookupHit(r)
    \/ LookupMiss(r)
    \/ Engine(r)

Network(r) ==
    \/ FetchFailed(r)
    \/ \E s \in {200, 404} : Respond(r, s)
    \/ \E b \in BodyKinds : BodyOk(r, b)
    \/ NetSilent(r)

Next ==
    \E r \in Reqs :
        \/ GenerateBadSpec(r)
        \/ \E u \in Urls : GenerateStart(r, u)
        \/ Program(r)
        \/ Network(r)
        \/ Abandon(r)

Spec == Init /\ [][Next]_vars

\* the runtime polls every ready task and the remote end takes some step
\* for every fetch; callers are not obliged to call or to go away
FairSpec == Spec /\ \A r \in Reqs : WF_vars(Program(r)) /\ WF_vars(Network(r))

\* the remote end of a fetch that answers: an error, a response head, or the
\* rest of the body
Answered(r) ==
    \/ FetchFailed(r)
    \/ \E s \in {200, 404} : Respond(r, s)
    \/ \E b \in BodyKinds : BodyOk(r, b)

NextAnswered ==
    \E r \in Reqs :
        \/ GenerateBadSpec(r)
        \/ \E u \in Urls : GenerateStart(r, u)
        \/ Program(r)
        \/ Answered(r)
        \/ Abandon(r)

\* the server among remote ends that never stay silent: every fetch gets an
\* answer or an error, tasks are polled fairly and the mutex is FIFO
AnsweredSpec ==
    /\ Init
    /\ [][NextAnswered]_vars
    /\ \A r \in Reqs : WF_vars(Program(r)) /\ WF_vars(Answered(r))


(* ---- pb: ImageSpec and its string form -------------------------------- *)
\* The pb module is generated from abi.proto and is not part of the sources
\* at hand; it is modelled from the design: a Spec is a tagged variant, the
\* token is field-tagged (tag, number of values, values), enumerations
\* travel as their numbers.
SampleFilters == <<"Nearest", "CatmullRom">>
Filters == <<"Oceanic", "Marine">>

\* Spec::new_resize, Spec::new_crop, Spec::new_watermark, Spec::new_filter
NewResize(w, h, k) == <<"resize", w, h, k>>
NewCrop(x, y, w, h) == <<"crop", x, y, w, h>>
NewWatermark(x, y) == <<"watermark", x, y>>
NewFilter(f) == <<"filter", f>>

AllSteps ==
    {NewResize(w, h, SampleFilters[k]) : w \in 1..MaxDim, h \in 1..MaxDim,
                                         k \in 1..Len(SampleFilters)}
    \cup {NewCrop(x, y, w, h) : x \in 0..(MaxDim - 1), y \in 0..(MaxDim - 1),
                                 w \in 1..MaxDim, h \in 1..MaxDim}
    \cup {NewWatermark(x, y) : x \in 0..MaxDim, y \in 0..MaxDim}
    \cup {NewFilter(Filters[f]) : f \in 1..Len(Filters)}

\* ImageSpec::new(vec![..]) for every list of at most MaxSteps steps
AllSpecs == UNION {[1..n -> AllSteps] : n \in 0..MaxSteps}

Kinds == <<"resize", "crop", "watermark", "filter">>

TagOf(kind) == CHOOSE t \in 1..Len(Kinds) : Kinds[t] = kind

\* number of values a variant carries
Arity(kind) ==
    CASE kind = "resize" -> 3
      [] kind = "crop" -> 4
      [] kind = "watermark" -> 2
      [] kind = "filter" -> 1

EnumNo(names, n) == CHOOSE i \in 1..Len(names) : names[i] = n

\* the values of a step as numbers
ValuesOf(s) ==
    CASE s[1] = "resize" -> <<s[2], s[3], EnumNo(SampleFilters, s[4])>>
      [] s[1] = "crop" -> <<s[2], s[3], s[4], s[5]>>
      [] s[1] = "watermark" -> <<s[2], s[3]>>
      [] s[1] = "filter" -> <<EnumNo(Filters, s[2])>>

EncodeStep(s) == <<TagOf(s[1]), Len(ValuesOf(s))>> \o ValuesOf(s)

RECURSIVE Encode(_)
\* impl From<&ImageSpec> for String
Encode(spec) ==
    IF spec = <<>> THEN <<>>
    ELSE EncodeStep(Head(spec)) \o Encode(Tail(spec))

Malformed == [err |-> "Malformed", specs |-> <<>>]
UnknownVariant == [err |-> "UnknownVariant", specs |-> <<>>]

\* the step a tag and its values stand for; <<>> when a value is out of
\* the range of its enumeration
StepOf(kind, v) ==
    CASE kind = "resize" ->
            IF v[3] \in 1..Len(SampleFilters)
              THEN NewResize(v[1], v[2], SampleFilters[v[3]]) ELSE <<>>
      [] kind = "crop" -> NewCrop(v[1], v[2], v[3], v[4])
      [] kind = "watermark" -> NewWatermark(v[1], v[2])
      [] kind = "filter" ->
            IF v[1] \in 1..Len(Filters) THEN NewFilter(Filters[v[1]]) ELSE <<>>

RECURSIVE Decode(_)
\* impl TryFrom<&str> for ImageSpec
Decode(tok) ==
    IF tok = <<>> THEN [err |-> "none", specs |-> <<>>]
    ELSE IF Len(tok) < 2 THEN Malformed
    ELSE IF Len(tok) < 2 + tok[2] THEN Malformed
    ELSE IF tok[1] \notin 1..Len(Kinds) THEN UnknownVariant
    ELSE IF tok[2] # Arity(Kinds[tok[1]]) THEN Malformed
    ELSE LET step == StepOf(Kinds[tok[1]], SubSeq(tok, 3, 2 + tok[2]))
             rest == Decode(SubSeq(tok, 3 + tok[2], Len(tok)))
         IN IF step = <<>> THEN Malformed
            ELSE IF rest.err # "none" THEN rest
            ELSE [err |-> "none", specs |-> <<step>> \o rest.specs]

(* ---- engine: Photon --------------------------------------------------- *)
\* The engine module is not part of the sources at hand; it is modelled
\* from the design.  A pixel buffer is its size, the colour of the picture,
\* the colour of the overlay where one is visible (0: none) and the kernel
\* of its last resampling.
Sources ==
    {[kind |-> "junk", w |-> 0, h |-> 0]}
    \cup {[kind |-> "image", w |-> w, h |-> MaxDim] : w \in {1, MaxDim}}

\* impl TryFrom<Bytes> for Photon: the decoded picture
PixelsOf(b) == [w |-> b.w, h |-> b.h, base |-> 1, over |-> 0, kernel |-> "none"]

Min(a, b) == IF a < b THEN a ELSE b

\* a named colour transform of one colour (0 stays: nothing to colour)
Tint(c, f) == IF c = 0 THEN 0 ELSE ((c + EnumNo(Filters, f)) % 4) + 1

\* one Spec applied to a buffer: resize takes width and height literally;
\* crop clamps the region to the buffer; the overlay is clipped away when
\* its offset lies outside the buffer; a filter colours the whole picture
StepApply(p, s) ==
    CASE s[1] = "resize" -> [p EXCEPT !.w = s[2], !.h = s[3], !.kernel = s[4]]
      [] s[1] = "crop" ->
            [p EXCEPT !.w = Min(s[4], p.w - Min(s[2], p.w - 1)),
                      !.h = Min(s[5], p.h - Min(s[3], p.h - 1))]
      [] s[1] = "watermark" ->
            IF s[2] < p.w /\ s[3] < p.h THEN [p EXCEPT !.over = 3] ELSE p
      [] s[1] = "filter" ->
            [p EXCEPT !.base = Tint(p.base, s[2]), !.over = Tint(p.over, s[2])]

(* ---- one request through the codec and the engine ---------------------- *)
\* any ImageSpec and any fetched bytes
PipeInit ==
    /\ ServerInit
    /\ pstage = "spec"
    /\ ispec \in AllSpecs
    /\ bytes \in Sources
    /\ token = <<>>
    /\ steps = <<>>
    /\ buf = NoPixels
    /\ idx = 0
    /\ napply = 0
    /\ applyLog = <<>>
    /\ output = NoOutput

\* print_test_url: image_spec.borrow().into() goes into the path as it is
PrintTestUrl ==
    /\ pstage = "spec"
    /\ token' = Encode(ispec)
    /\ pstage' = "url"
    /\ UNCHANGED <<serverVars, ispec, steps, bytes, buf, idx, napply, applyLog, output>>

\* tokens that no encode produced: cut short, with a tag or an enumeration
\* number this version does not know, or followed by a stray symbol
Damaged(tok) ==
    {tok \o <<TagOf("filter")>>,
     tok \o <<TagOf("filter"), 1, Len(Filters) + 1>>,
     tok \o <<Len(Kinds) + 1, 0>>}
    \cup (IF tok = <<>> THEN {} ELSE {SubSeq(tok, 1, Len(tok) - 1)})

\* the `spec` segment of the path is whatever the client sends
Tamper ==
    /\ pstage = "url"
    /\ token = Encode(ispec)
    /\ token' \in Damaged(token)
    /\ UNCHANGED <<serverVars, pstage, ispec, steps, bytes, buf, idx, napply, applyLog, output>>

\* fault: the Err of try_into is replaced by the default (empty) ImageSpec
DecodeSpec_Default ==
    /\ pstage = "url"
    /\ pstage' = "spec_ok"
    /\ steps' = <<>>
    /\ UNCHANGED <<serverVars, ispec, token, bytes, buf, idx, napply, applyLog, output>>

\* generate: spec.as_str().try_into().map_err(|_| BAD_REQUEST)?
DecodeSpec ==
    /\ pstage = "url"
    /\ IF Decode(token).err = "none"
         THEN pstage' = "spec_ok" /\ steps' = Decode(token).specs
         ELSE pstage' = "rejected" /\ steps' = steps
    /\ UNCHANGED <<serverVars, ispec, token, bytes, buf, idx, napply, applyLog, output>>

\* generate: data.try_into().map_err(|_| INTERNAL_SERVER_ERROR)?
EngineNew ==
    /\ pstage = "spec_ok"
    /\ IF bytes.kind = "image"
         THEN pstage' = "engine" /\ buf' = PixelsOf(bytes)
         ELSE pstage' = "failed" /\ buf' = buf
    /\ UNCHANGED <<serverVars, ispec, token, steps, bytes, idx, napply, applyLog, output>>

\* generate: engine.apply(&spec.specs) is entered
EngineApply ==
    /\ pstage = "engine"
    /\ pstage' = "applying"
    /\ idx' = 1
    /\ napply' = napply + 1
    /\ UNCHANGED <<serverVars, ispec, token, steps, bytes, buf, applyLog, output>>

\* apply: the next step of the slice works on the buffer in place
ApplyStep ==
    /\ pstage = "applying"
    /\ idx <= Len(steps)
    /\ buf' = StepApply(buf, steps[idx])
    /\ applyLog' = Append(applyLog, [step |-> steps[idx], from |-> buf, to |-> buf'])
    /\ idx' = idx + 1
    /\ UNCHANGED <<serverVars, pstage, ispec, token, steps, bytes, napply, output>>

\* fault: generate is called on the engine before apply
EngineGenerate_Early ==
    /\ pstage \in {"engine", "applying"}
    /\ output' = [format |-> "jpeg", quality |-> 85, pixels |-> buf]
    /\ buf' = NoPixels
    /\ pstage' = "generated"
    /\ UNCHANGED <<serverVars, ispec, token, steps, bytes, idx, napply, applyLog>>

\* generate: apply has returned; engine.generate(ImageOutputFormat::Jpeg(85))
\* consumes the buffer
EngineGenerate ==
    /\ pstage = "applying"
    /\ idx > Len(steps)
    /\ output' = [format |-> "jpeg", quality |-> 85, pixels |-> buf]
    /\ buf' = NoPixels
    /\ pstage' = "generated"
    /\ UNCHANGED <<serverVars, ispec, token, steps, bytes, idx, napply, applyLog>>

PipeNext ==
    \/ PrintTestUrl
    \/ Tamper
    \/ DecodeSpec
    \/ EngineNew
    \/ EngineApply
    \/ ApplyStep
    \/ EngineGenerate

PipeSpec == PipeInit /\ [][PipeNext]_vars

(* ====================================================================== *)
(* Properties                                                             *)
(* ====================================================================== *)
InFlight == {"fetching", "reading", "hung"}

\* r leaves the locked section with a result of retrieve_image
Completes(r) == pc[r] \in InSection /\ pc'[r] \in {"engine", "done"}

\* some key enters the cache in this step
Inserts == Keys(cache') \ Keys(cache) # {}

\* C1 (as stated): of two calls that pass the cache one right after the
\* other, the second with the URL of a first that fetched it successfully is
\* served the cached bytes without a fetch (one fetch in all); the second
\* with a different URL, the first having started on an empty cache, makes
\* the total two fetches.
C1_DifferentUrlsTwoFetches ==
    [][\A r \in Reqs : Completes(r) =>
         /\ (lastCall.kind = "miss_ok" /\ url[r] = lastCall.url) =>
               /\ lastCall'.kind = "hit"
               /\ lastCall.fetches + lastCall'.fetches = 1
               /\ data'[r] = lastCall.body
         /\ (lastCall.wasEmpty /\ url[r] # lastCall.url) =>
               lastCall.fetches + lastCall'.fetches = 2
      ]_vars

\* C1 (amended): the same, the second half for URLs whose hash keys differ.
C1_HitAvoidsRefetch ==
    [][\A r \in Reqs : Completes(r) =>
         /\ (lastCall.kind = "miss_ok" /\ url[r] = lastCall.url) =>
               /\ lastCall'.kind = "hit"
               /\ lastCall.fetches + lastCall'.fetches = 1
               /\ data'[r] = lastCall.body
         /\ (lastCall.wasEmpty /\ Hash(url[r]) # Hash(lastCall.url)) =>
               lastCall.fetches + lastCall'.fetches = 2
      ]_vars

\* the second of two calls with one URL has been served from the cache
C1_Witness ==
    /\ lastCall.kind = "hit"
    /\ lastCall.fetches = 0
    /\ lastCall.body.src = lastCall.url
    /\ \E r \in Reqs : pc[r] = "engine" /\ data[r] = lastCall.body

\* C2: a fetch that fails with a transport error makes the call answer with
\* an error and leaves the cache as the call found it when it took the
\* guard: no entry for the key, nothing evicted, so the next get of the URL
\* misses again.
C2_FailedFetchLeavesCache ==
    [][\A r \in Reqs :
         (pc[r] \in {"fetching", "reading"} /\ pc'[r] = "done") =>
             /\ resp'[r] = 400
             /\ data'[r] = NoBody
             /\ cache' = cacheAtLock
             /\ ~Contains(cache', Hash(url[r]))
      ]_vars

\* a call has failed in its fetch while the cache held another entry
C2_Witness ==
    /\ lastCall.kind = "miss_err"
    /\ cache # <<>>
    /\ lastCall.fetches = 1
    /\ ~Contains(cache, Hash(lastCall.url))
    /\ \E r \in Reqs : pc[r] = "done" /\ resp[r] = 400

\* C3: the body of a reply with a non-success status is never stored in the
\* cache nor handed to the caller as the result of retrieve_image.
C3_NonSuccessNotCached ==
    /\ \A i \in 1..Len(cache) : cache[i].val.kind # "errpage"
    /\ \A r \in Reqs : data[r].kind # "errpage"

\* C4: the cache never holds more entries than its capacity.
C4_Bounded == Len(cache) <= MaxEntries /\ Cardinality(Keys(cache)) = Len(cache)

\* the cache is full and the bytes a call has just fetched and stored are
\* gone again
C4_Witness ==
    /\ Len(cache) = MaxEntries
    /\ \E r \in Reqs : /\ pc[r] = "engine"
                       /\ data[r].kind # "none"
                       /\ ~Contains(cache, Hash(data[r].src))

\* C5: an insert into a full cache evicts exactly the entry whose last access
\* is the oldest; an insert below capacity evicts nothing.
C5_StrictLru ==
    [][Inserts =>
         IF Len(cache) >= MaxEntries
         THEN /\ Keys(cache) \ Keys(cache') = {Oldest(stamp, Keys(cache))}
              /\ Len(cache') = MaxEntries
         ELSE /\ Keys(cache) \subseteq Keys(cache')
              /\ Len(cache') = Len(cache) + 1
      ]_vars

\* an insert has evicted an entry that was older than an entry hit before
C5_Witness ==
    /\ lastCall.kind = "miss_ok"
    /\ ~lastCall.wasEmpty
    /\ Len(cache) = MaxEntries
    /\ hitHist.before >= 0
    /\ stamp[Hash(lastCall.url)] = MaxEntries
    /\ stamp[hitHist.before] = MaxEntries - 1

\* C6: the entry hit by the last cache event survives an insert into a full
\* cache of at least two entries.
C6_HitProtects ==
    [][(Inserts /\ hitHist.last >= 0 /\ Len(cache) >= MaxEntries /\ MaxEntries >= 2)
          => Contains(cache', hitHist.last)
      ]_vars

\* an evicting insert came right after a hit and the hit entry is still there
C6_Witness ==
    /\ hitHist.before >= 0
    /\ Contains(cache, hitHist.before)
    /\ Len(cache) = MaxEntries

\* C7: at most one request is between taking the guard and dropping it, it
\* is the holder, and the cache is as the holder found it: nobody has read
\* or changed it since the holder's lookup, the fetch included.
C7_Serialized ==
    /\ Cardinality({r \in Reqs : pc[r] \in InSection}) <= 1
    /\ \A r \in Reqs : pc[r] \in InSection => holder = r /\ cache = cacheAtLock

\* one request is suspended in its fetch while another waits for the guard
C7_Witness ==
    \E r1, r2 \in Reqs :
        /\ pc[r1] = "reading"
        /\ pc[r2] = "wait_lock"
        /\ cache # <<>>

C9_FetchRunsToCompletion ==
    [][\A r \in Reqs :
         pc[r] \in InFlight => pc'[r] \in InFlight \cup {"engine", "done"}
      ]_vars

\* C9 (amended): a request abandoned while its fetch is in flight is dropped
\* with its guard: nothing is stored, the cache is as the request found it,
\* and the URL's key is still uncached.
C9_AbandonCachesNothing ==
    [][\A r \in Reqs :
         (pc[r] \in InFlight /\ pc'[r] = "dropped") =>
             /\ cache' = cacheAtLock
             /\ ~Contains(cache', Hash(url[r]))
             /\ holder' # r
      ]_vars

\* a request has been dropped in its fetch and its URL is not cached
C9_Witness ==
    \E r \in Reqs :
        /\ pc[r] = "dropped"
        /\ holder # r
        /\ lastCall.kind = "dropped"
        /\ lastCall.fetches = 1
        /\ ~Contains(cache, Hash(lastCall.url))

\* C10: every call of retrieve_image that is not abandoned ends, with bytes
\* or with an error.
C10_EveryCallReturns ==
    \A r \in Reqs :
        (pc[r] \in {"retrieve", "wait_lock"} \cup InSection)
            ~> (pc[r] \in {"engine", "done", "dropped"})


\* C11: a request whose spec token does not decode is answered 400 at once:
\* it makes no fetch, never queues for or holds the cache guard, never
\* reaches the engine, and the step that answers it leaves the cache, its
\* recency order and the mutex as they were.
C11_BadSpecNoFetch ==
    /\ [](\A r \in Reqs : ~specOk[r] =>
            /\ pc[r] = "done"
            /\ resp[r] = 400
            /\ nfetch[r] = 0
            /\ data[r] = NoBody
            /\ holder # r
            /\ \A i \in 1..Len(waitq) : waitq[i] # r)
    /\ [][\A r \in Reqs : (specOk[r] /\ ~specOk'[r]) =>
            UNCHANGED <<cache, stamp, hitHist, holder, waitq, lastCall>>]_vars

\* a malformed token has been answered while the cache held an entry and
\* another request held the guard in its fetch
C11_Witness ==
    \E r1, r2 \in Reqs :
        /\ ~specOk[r1]
        /\ resp[r1] = 400
        /\ pc[r2] = "fetching"
        /\ cache # <<>>

\* C12: when the fetched bytes are not a decodable image, the request is
\* answered with a client-error status (4xx), not a server-error status.
C12_DecodeErrorIsClientError ==
    [][\A r \in Reqs :
        (pc[r] = "engine" /\ data[r].kind # "image" /\ pc'[r] = "done")
            => resp'[r] \in 400..499]_vars

\* C13 as stated: a hit for a URL returns bytes that were fetched from that
\* same URL, never bytes fetched from another URL.
C13_HitReturnsOwnUrl ==
    [][\A r \in Reqs :
        (pc[r] = "lookup" /\ pc'[r] = "engine") => data'[r].src = url[r]]_vars

\* C13 amended: the cache holds one entry per key, each entry's bytes were
\* fetched from a URL that hashes to the entry's key, and a hit for a URL
\* returns the bytes stored under that URL's key: bytes of a URL with the same
\* hash, never bytes of a URL with a different hash.
C13_HitReturnsSameKey ==
    /\ [](\A i, j \in 1..Len(cache) :
            /\ (cache[i].key = cache[j].key => i = j)
            /\ Hash(cache[i].val.src) = cache[i].key)
    /\ [][\A r \in Reqs :
            (pc[r] = "lookup" /\ pc'[r] = "engine") =>
                /\ Hash(data'[r].src) = Hash(url[r])
                /\ \E i \in 1..Len(cache) :
                      /\ cache[i].key = Hash(url[r])
                      /\ cache[i].val = data'[r]]_vars

\* a hit has returned bytes that were fetched from a different URL with the
\* same key, while another key was cached too
C13_Witness ==
    /\ lastCall.kind = "hit"
    /\ lastCall.body.src # lastCall.url
    /\ Hash(lastCall.body.src) = Hash(lastCall.url)
    /\ Len(cache) = MaxEntries

\* Stage of generate a request is in: 0 between calls (before the spec
\* decode of the next call), 1 inside retrieve_image, 2 in the engine.
StageOf(p) ==
    IF p \in {"idle", "done", "dropped"} THEN 0
    ELSE IF p = "engine" THEN 2 ELSE 1

\* C16: the stages of a call run in the order spec decode, cache get/fetch,
\* engine.  A call enters retrieve_image only with a decoded spec and enters
\* the engine only from retrieve_image with the bytes it returned; a stage
\* that fails ends the call with 400 or 500 and no later stage runs; the
\* answer is 200 (image/jpeg body) exactly when the call came through the
\* engine with decodable bytes, and no answer exists while a call is running.
C16_StagesInOrder ==
    /\ [](\A r \in Reqs :
            /\ StageOf(pc[r]) > 0 => (specOk[r] /\ resp[r] = 0)
            /\ pc[r] = "engine" => (data[r] # NoBody /\ holder # r)
            /\ pc[r] = "done" => resp[r] \in {200, 400, 500})
    /\ [][\A r \in Reqs :
            /\ StageOf(pc'[r]) \in {StageOf(pc[r]), StageOf(pc[r]) + 1, 0}
            /\ (pc[r] = "engine" /\ pc'[r] # "engine") =>
                  /\ pc'[r] = "done"
                  /\ resp'[r] = 200 <=> data[r].kind = "image"
            /\ (StageOf(pc[r]) < 2 /\ pc'[r] = "done"
                  /\ (pc[r] # "done" \/ resp'[r] # resp[r])) => resp'[r] = 400
            /\ (resp'[r] = 200 /\ resp[r] # 200) => pc[r] = "engine"]_vars

\* one request was answered 200 after a fetch and the engine, the other was
\* ended by a failed fetch and never reached the engine
C16_Witness ==
    \E r1, r2 \in Reqs :
        /\ pc[r1] = "done" /\ resp[r1] = 200 /\ specOk[r1]
        /\ pc[r2] = "done" /\ resp[r2] = 400 /\ specOk[r2]
        /\ lastCall.kind = "miss_err"

\* a request that has called retrieve_image and has not yet finished its
\* cache operation
BeforeCacheOp == {"retrieve", "wait_lock", "lookup"}

\* C17: while a request is in the fetch branch of retrieve_image (guard held
\* across reqwest::get and bytes), no other request is past cache.lock(),
\* none can take a lookup step, and no step that leaves the fetch in flight
\* completes another request's cache operation or changes the cache, whatever
\* URL the other request asks for.
C17_FetchBlocksOthers ==
    /\ [](\A r1 \in Reqs : pc[r1] \in InFlight =>
            \A r2 \in Reqs \ {r1} :
                /\ pc[r2] \notin InSection
                /\ ~ENABLED LookupHit(r2)
                /\ ~ENABLED LookupMiss(r2)
                /\ ~ENABLED Wake(r2))
    /\ [][\A r1 \in Reqs : (pc[r1] \in InFlight /\ pc'[r1] \in InFlight) =>
            /\ cache' = cache
            /\ \A r2 \in Reqs \ {r1} :
                  pc[r2] \in BeforeCacheOp =>
                      pc'[r2] \in {"retrieve", "wait_lock", "dropped"}]_vars

\* a request queues for the guard with a URL of a different key that is
\* cached, while another request's fetch is in flight
C17_Witness ==
    \E r1, r2 \in Reqs :
        /\ pc[r1] = "reading"
        /\ pc[r2] = "wait_lock"
        /\ Hash(url[r2]) # Hash(url[r1])
        /\ Contains(cache, Hash(url[r2]))

\* the key/bytes pairs a cache holds, whatever their recency order
Entries(c) == {<<c[i].key, c[i].val>> : i \in 1..Len(c)}

C19_AtMostOneFetch ==
    /\ [](/\ \A r \in Reqs :
                /\ nfetch[r] \in {0, 1}
                /\ pc[r] \in BeforeCacheOp => nfetch[r] = 0
                /\ pc[r] \in InFlight => nfetch[r] = 1
          /\ lastCall.kind = "hit" => lastCall.fetches = 0
          /\ lastCall.kind \in {"miss_ok", "miss_err"} => lastCall.fetches = 1)
    /\ [][\A r \in Reqs :
            /\ nfetch'[r] > nfetch[r] =>
                  (pc[r] = "lookup" /\ ~Contains(cache, Hash(url[r])))
            /\ (pc[r] = "lookup" /\ pc'[r] = "engine") => nfetch[r] = 0
            /\ (pc[r] \in InFlight /\ pc'[r] = "done") =>
                  (nfetch[r] = 1 /\ lastCall'.kind = "miss_err")
            /\ (pc[r] \in InFlight /\ pc'[r] = "fetching") => pc[r] = "fetching"]_vars

\* a call has ended in a failed fetch after exactly one attempt while
\* another request waits for the guard
C19_Witness ==
    /\ lastCall.kind = "miss_err"
    /\ lastCall.fetches = 1
    /\ \E r \in Reqs : pc[r] = "lookup"

\* C20: the guard is given back on every way out of retrieve_image (hit,
\* stored miss, error return, dropped call): a request outside the call
\* neither holds the guard nor queues for it.  When every fetch is answered
\* and tasks are polled fairly, every request that has called retrieve_image
\* gets the guard and its call ends, unless its caller goes away first; a
\* request queued behind a fetch that fails is handed the guard.
C20_GuardReleased ==
    /\ [](\A r \in Reqs :
            /\ pc[r] \notin (InSection \cup {"wait_lock"}) =>
                  (holder # r /\ \A i \in 1..Len(waitq) : waitq[i] # r)
            /\ pc[r] \in InSection => holder = r)
    /\ [][\A r \in Reqs :
            (pc[r] \in InSection /\ pc'[r] \notin InSection) =>
                (holder' # r /\ holder' = NextHolder)]_vars
    /\ [][\A r \in Reqs :
            (pc[r] \in {"retrieve", "wait_lock"} /\ pc'[r] # pc[r]) =>
                pc'[r] \in {"wait_lock", "lookup", "dropped"}]_vars
    /\ \A r \in Reqs : []<>(pc[r] \notin (InSection \cup {"retrieve", "wait_lock"}))

\* a request queues for the guard behind a fetch, and the last call before
\* ended in a failed fetch
C20_Witness ==
    \E r1, r2 \in Reqs :
        /\ pc[r1] = "wait_lock"
        /\ pc[r2] = "reading"
        /\ lastCall.kind = "miss_err"
        /\ cache # <<>>

\* the states after a successful spec decode
Decoded == {"spec_ok", "failed", "engine", "applying", "generated"}

\* C15: for every ImageSpec of the bounded set, the empty one included,
\* decoding the token that encode produced gives Ok with the same step list,
\* no other ImageSpec encodes to that token, and the handler that receives
\* the token unchanged goes on with exactly the steps that were encoded; it
\* rejects only tokens that encode did not produce.
C15_RoundTrip ==
    /\ (pstage = "url" /\ token = Encode(ispec)) =>
          /\ Decode(token) = [err |-> "none", specs |-> ispec]
          /\ \A s \in AllSpecs : Encode(s) = token => s = ispec
    /\ (pstage \in Decoded /\ token = Encode(ispec)) => steps = ispec
    /\ pstage = "rejected" => token # Encode(ispec)

\* a two-step ImageSpec of different variants has come back from its token
C15_Witness ==
    /\ pstage = "spec_ok"
    /\ token = Encode(ispec)
    /\ Len(ispec) = MaxSteps
    /\ ispec[1][1] = "resize"
    /\ ispec[Len(ispec)][1] = "filter"
    /\ steps = ispec

\* C14: apply is called once, on the buffer decoded from the fetched bytes
\* and before generate; it executes the steps of the decoded list in their
\* order, each once, the first on the decoded picture and every later one on
\* the output of the step before it; generate encodes the output of the last
\* step, and for an empty list the decoded picture as it was.
C14_LeftFold ==
    /\ napply = (IF pstage \in {"applying", "generated"} THEN 1 ELSE 0)
    /\ pstage \notin {"applying", "generated"} => applyLog = <<>>
    /\ Len(applyLog) <= Len(steps)
    /\ \A n \in 1..Len(applyLog) :
          /\ applyLog[n].step = steps[n]
          /\ applyLog[n].from = (IF n = 1 THEN PixelsOf(bytes) ELSE applyLog[n - 1].to)
    /\ pstage = "applying" =>
          /\ idx = Len(applyLog) + 1
          /\ buf = (IF applyLog = <<>> THEN PixelsOf(bytes) ELSE applyLog[Len(applyLog)].to)
    /\ pstage = "generated" =>
          /\ bytes.kind = "image"
          /\ Len(applyLog) = Len(steps)
          /\ output.format = "jpeg"
          /\ output.pixels = (IF steps = <<>> THEN PixelsOf(bytes)
                               ELSE applyLog[Len(applyLog)].to)

\* an image has been generated from two steps whose order matters: the
\* second worked on a buffer the first had changed, and the steps in the
\* other order give another picture
C14_Witness ==
    /\ pstage = "generated"
    /\ Len(steps) = MaxSteps
    /\ applyLog[Len(steps)].from # PixelsOf(bytes)
    /\ output.pixels # StepApply(StepApply(PixelsOf(bytes), steps[Len(steps)]), steps[1])

====
